---- MODULE Spec2Model ----
(***************************************************************************)
(* Model of kubric/simulator/pybullet.py: the PyBullet view that binds a   *)
(* kubric scene to the Bullet engine.                                      *)
(*                                                                         *)
(* Two parts of the adapter are modelled:                                  *)
(*   - the property setters registered on every physical object            *)
(*     (set_position ... set_restitution) and body creation for            *)
(*     Cube / Sphere assets, explored by SpecSetters;                      *)
(*   - the stepping loop PyBullet.run, explored by Spec, one action per    *)
(*     phase of a sub-step in the order the loop body executes them.       *)
(*                                                                         *)
(* The engine itself is external: stepSimulation is a nondeterministic     *)
(* choice of the velocities and contact points the engine reports next.    *)
(* Scalars stand for quantities whose structure the adapter never looks    *)
(* at (position, angular velocity); velocity is a 3-vector because run     *)
(* takes the norm of its first two components, and quaternions are         *)
(* 4-tuples because the adapter permutes their components.                 *)
(***************************************************************************)
EXTENDS Integers, Sequences, FiniteSets, TLC

\* ------------------------------------------------------------- bounds
\* Number of foreground (non-floor) assets of the scene run is explored with.
NumForeground == 2
\* Longest contact list the engine reports after one stepSimulation.
MaxContacts == 1
\* Largest frame_end - frame_start + 1 a run is started with.
MaxFrames == 2
\* Most assets a scene is built up to, the floor included.
MaxAssets == 3
\* Largest component of the quaternions the conversions are tried on.
MaxComponent == 2

\* -------------------------------------------------- program constants
\* normal_force > 1e-6, in units of 1e-6
ForceThreshold == 1
\* init_speed == 6 and speed_norm >= 8
FastInitSpeed == 6
FastSpeedCap == 8
\* init_speed <= 3 and speed_norm >= 5
SlowInitSpeed == 3
SlowSpeedCap == 5
\* acceleration = 0 if obj_idx in speed_limited else 3
ThrustAcceleration == 3
\* float_force = [0, 10*mass, 0]
FloatAcceleration == 10
\* restitution > 1 is rejected
MaxRestitution == 1

\* ------------------------------------------------------ value domains
NoBody == -1
NoCall == -1
Zero3 == <<0, 0, 0>>
\* wxyz quaternions an asset may hold: the identity and a half turn about x
Quaternions == {<<1, 0, 0, 0>>, <<0, 1, 0, 0>>}
\* velocities the engine may report: planar speed 6 (and 9 along z), planar speed 9
VelocityVals == {<<0, 6, 9>>, <<9, 0, 0>>}
\* normal forces the engine may report: at the threshold and above it
ForceVals == {ForceThreshold, ForceThreshold + 1}
InitSpeeds == {SlowInitSpeed, SlowInitSpeed + 1, FastInitSpeed}
StepRates == {1, 2}
FrameRates == {1, 2}
FrameStarts == {0, 1}
\* values the setters are driven with
MassVals == {-1, 0, 2}
FrictionVals == {-1, 0, 1}
RestitutionVals == {-1, 0, MaxRestitution, MaxRestitution + 1}
PositionVals == {0, 1}
AngularVals == {0, 1}

Attributes == {"position", "quaternion", "velocity", "angular_velocity",
               "acceleration", "floatingForce"}

VARIABLES
  \* --- scene (kubric core objects)
  step_rate, frame_rate,   \* scene.step_rate, scene.frame_rate
  assets,                  \* asset id -> its traits and metadata
  linked_objects,          \* asset id -> body handle of this view, or NoBody
  foreground_assets,       \* scene.foreground_assets, a sequence of asset ids
  keyframes,               \* asset id -> attribute -> sequence of inserted keyframes
  \* --- engine (pybullet)
  engine,                  \* body handle -> state of the body in the engine
    engine_steps,            \* number of stepSimulation calls so far
  applied,                 \* body handle -> external forces applied since the last step
  change,                  \* the last trait change delivered to a registered setter
  answer,                  \* what the last overlap query returned, and for which asset
  \* --- PyBullet.run
  pc, error,
  frame_start, frame_end, steps_per_frame, max_step, current_step,
  animation, collisions,
  collided_with_others, collided_with_floor, speed_limited,
  accelerations, floatings,
  read_points              \* every contact point run has read so far, in order,
                           \* each with the sub-step that read it

sceneVars == <<step_rate, frame_rate, assets, linked_objects, foreground_assets, keyframes>>
engineVars == <<engine, engine_steps, applied, change>>
queryVars == <<answer>>
runVars == <<pc, error, frame_start, frame_end, steps_per_frame, max_step, current_step,
             animation, collisions, collided_with_others, collided_with_floor,
             speed_limited, accelerations, floatings, read_points>>
\* What run keeps besides its position and the error raised.
runLocals == <<frame_start, frame_end, steps_per_frame, max_step, current_step,
               animation, collisions, collided_with_others, collided_with_floor,
               speed_limited, accelerations, floatings, read_points>>
vars == <<sceneVars, engineVars, queryVars, runVars>>

Min(a, b) == IF a <= b THEN a ELSE b
Max(a, b) == IF a >= b THEN a ELSE b

\* The members of a set of numbers as a list, in ascending order.
RECURSIVE InOrder(_)
InOrder(S) ==
  IF S = {} THEN <<>>
  ELSE LET first == CHOOSE x \in S : \A y \in S : x <= y
       IN <<first>> \o InOrder(S \ {first})

\* ------------------------------------------------ quaternion formats
\* Mutant: the same shift as wxyz2xyzw, written twice.
xyzw2wxyz_ShiftsLeft(q) == <<q[2], q[3], q[4], q[1]>>

xyzw2wxyz(q) == <<q[4], q[1], q[2], q[3]>>
wxyz2xyzw(q) == <<q[2], q[3], q[4], q[1]>>

\* ----------------------------------------------- engine primitives
\* resetBasePositionAndOrientation zeroes out both velocities of the body.
resetBasePositionAndOrientation(body, position, quaternion) ==
  [body EXCEPT !.position = position, !.quaternion = quaternion,
               !.velocity = Zero3, !.angular_velocity = 0]

resetBaseVelocity(body, velocity, angular_velocity) ==
  [body EXCEPT !.velocity = velocity, !.angular_velocity = angular_velocity]

\* ------------------------------------------------ property setters
\* Each takes the engine body the setter was registered for and returns
\* what the engine holds for it afterwards.
\* Mutant: the velocities the reset zeroed are not put back.
set_position_LosesVelocity(body, position) ==
  resetBasePositionAndOrientation(body, position, body.quaternion)

set_position(body, position) ==
  LET quaternion == body.quaternion
      velocity == body.velocity
      angular_velocity == body.angular_velocity
  IN resetBaseVelocity(resetBasePositionAndOrientation(body, position, quaternion),
                       velocity, angular_velocity)

set_quaternion(body, quaternion) ==
  LET position == body.position
      velocity == body.velocity
      angular_velocity == body.angular_velocity
  IN resetBaseVelocity(
       resetBasePositionAndOrientation(body, position, wxyz2xyzw(quaternion)),
       velocity, angular_velocity)

set_velocity(body, velocity) ==
  resetBaseVelocity(body, velocity, body.angular_velocity)

set_angular_velocity(body, angular_velocity) ==
  resetBaseVelocity(body, body.velocity, angular_velocity)

\* The four setters below validate; each returns the body afterwards and
\* the error raised ("none" when the call returns).

\* Mutant: the mass is pushed whether the asset is static or not.
set_mass_IgnoresStatic(body, mass, asset) ==
  IF mass < 0
  THEN [body |-> body, raised |-> "ValueError"]
  ELSE [body |-> [body EXCEPT !.mass = mass], raised |-> "none"]

set_mass(body, mass, asset) ==
  IF mass < 0
  THEN [body |-> body, raised |-> "ValueError"]
  ELSE [body |-> IF ~asset.static THEN [body EXCEPT !.mass = mass] ELSE body,
        raised |-> "none"]

set_static(body, is_static, asset) ==
  [body |-> IF is_static THEN [body EXCEPT !.mass = 0]
            ELSE [body EXCEPT !.mass = asset.mass],
   raised |-> "none"]

set_friction(body, friction) ==
  IF friction < 0
  THEN [body |-> body, raised |-> "ValueError"]
  ELSE [body |-> [body EXCEPT !.friction = friction], raised |-> "none"]

\* Mutant: no upper bound on the restitution.
set_restitution_NoUpperBound(body, restitution) ==
  IF restitution < 0
  THEN [body |-> body, raised |-> "ValueError"]
  ELSE [body |-> [body EXCEPT !.restitution = restitution], raised |-> "none"]

set_restitution(body, restitution) ==
  IF restitution < 0
  THEN [body |-> body, raised |-> "ValueError"]
  ELSE IF restitution > MaxRestitution
  THEN [body |-> body, raised |-> "ValueError"]
  ELSE [body |-> [body EXCEPT !.restitution = restitution], raised |-> "none"]

\* --------------------------------------------------- body creation
\* createMultiBody(mass, collision_idx, visual_idx, position, orientation):
\* a new body is at rest; friction and restitution start at the engine's
\* defaults (lateral friction 0.5, here in units of 0.5, restitution 0).
createMultiBody(mass, position, orientation) ==
  [position |-> position, quaternion |-> orientation,
   velocity |-> Zero3, angular_velocity |-> 0,
   mass |-> mass, friction |-> 1, restitution |-> 0]

\* add_asset for a Cube or a Sphere: the body the engine creates for obj.
add_object(obj) ==
  LET mass == IF obj.static THEN 0 ELSE obj.mass
  IN createMultiBody(mass, obj.position, wxyz2xyzw(obj.quaternion))

\* The files a FileBasedObject may name: none at all, a path that does not
\* exist, an existing mesh that is not a URDF, an existing URDF.
FileNames == {"none", "missing.urdf", "mesh.obj", "model.urdf"}

\* path.exists()
PathExists(filename) == filename \in {"mesh.obj", "model.urdf"}

\* path.suffix
Suffix(filename) == IF filename = "mesh.obj" THEN ".obj" ELSE ".urdf"

\* loadURDF(path, useFixedBase=obj.static, ...): the body is the one the
\* file describes, at rest at the origin; a fixed base has mass 0.
loadURDF(obj) ==
  createMultiBody(IF obj.static THEN 0 ELSE 1, 0, <<0, 0, 0, 1>>)

\* What add_asset did: the body it created, if any, and the error raised.
Created(body) == [created |-> TRUE, body |-> body, raised |-> "none"]
Ignored == [created |-> FALSE, body |-> NoBody, raised |-> "none"]
Raised(exception) == [created |-> FALSE, body |-> NoBody, raised |-> exception]

\* Mutant: the format of the file is not looked at.
add_file_based_object_AnyFormat(obj, loaded) ==
  IF obj.simulation_filename = "none" THEN Ignored
  ELSE IF ~PathExists(obj.simulation_filename) THEN Raised("IOError")
  ELSE IF ~obj.uniform_scale THEN Raised("AssertionError")
  ELSE IF ~loaded THEN Raised("IOError")
  ELSE Created(loadURDF(obj))

\* _add_object(obj: core.FileBasedObject); loaded tells whether loadURDF
\* returned a handle (obj_idx >= 0).
add_file_based_object(obj, loaded) ==
  IF obj.simulation_filename = "none" THEN Ignored
  ELSE IF ~PathExists(obj.simulation_filename) THEN Raised("IOError")
  ELSE IF ~obj.uniform_scale THEN Raised("AssertionError")
  ELSE IF Suffix(obj.simulation_filename) # ".urdf" THEN Raised("IOError")
  ELSE IF ~loaded THEN Raised("IOError")
  ELSE Created(loadURDF(obj))

\* add_asset, dispatched on the class of the asset.
add_asset(obj, loaded) ==
  CASE obj.kind \in {"Camera", "Material", "Light"} -> Ignored
    [] obj.kind = "Cube" -> Created(add_object(obj))
    [] obj.kind = "Sphere" ->
         IF obj.uniform_scale THEN Created(add_object(obj))
         ELSE Raised("AssertionError")
    [] obj.kind = "FileBasedObject" -> add_file_based_object(obj, loaded)
    [] OTHER -> Raised("NotImplementedError")

\* The handle the engine gives a new body: one that no body holds.  With
\* no body removed they are handed out in creation order; a removed body's
\* handle may be handed out again.
NewBodyIds == {h \in 0..Cardinality(DOMAIN engine) : h \notin DOMAIN engine}

\* register_physical_object_setters has run for the asset.
HasSetters(a) == linked_objects[a] # NoBody

NoChange == [name |-> "none", owner |-> NoBody]

\* No overlap query has been made.
NoAnswer == [query |-> "none", obj |-> NoBody, overlap |-> FALSE]

\* The engine after add_asset's result r, the new body under handle id.
EngineWith(id, r) == IF r.created THEN (id :> r.body) @@ engine ELSE engine

AppliedWith(id, r) ==
  IF r.created THEN (id :> [thrust |-> NoCall, floating |-> NoCall]) @@ applied
  ELSE applied

\* ------------------------------------------ operations on an asset
\* An assignment to a trait stores the value on the asset and, when the
\* value differs from the old one, calls the setter registered for it.
AddAsset(a) ==
  /\ pc = "setup"
  /\ linked_objects[a] = NoBody
  /\ \E id \in NewBodyIds, loaded \in BOOLEAN :
       LET r == add_asset(assets[a], loaded)
       IN /\ engine' = EngineWith(id, r)
          /\ applied' = AppliedWith(id, r)
          /\ linked_objects' =
               IF r.created THEN [linked_objects EXCEPT ![a] = id] ELSE linked_objects
          /\ error' = r.raised
  /\ UNCHANGED <<step_rate, frame_rate, assets, foreground_assets, keyframes,
                 engine_steps, change, queryVars, pc, runLocals>>

\* Common frame of the trait assignments: what the run and the scene keep.
AssignFrame ==
  UNCHANGED <<step_rate, frame_rate, linked_objects, foreground_assets, keyframes,
              engine_steps, applied, queryVars,
              pc, frame_start, frame_end, steps_per_frame, max_step, current_step,
              animation, collisions, collided_with_others, collided_with_floor,
              speed_limited, accelerations, floatings, read_points>>

\* The engine and the error after the setter's result r for asset a.
Pushed(a, name, r) ==
  /\ engine' = [engine EXCEPT ![linked_objects[a]] = r.body]
  /\ error' = r.raised
  /\ change' = [name |-> name, owner |-> a]

NotPushed ==
  /\ engine' = engine
  /\ error' = "none"
  /\ change' = NoChange

Quiet(body) == [body |-> body, raised |-> "none"]

AssignPosition(a, v) ==
  /\ pc = "setup"
  /\ assets' = [assets EXCEPT ![a].position = v]
  /\ IF HasSetters(a) /\ v # assets[a].position
     THEN Pushed(a, "position", Quiet(set_position(engine[linked_objects[a]], v)))
     ELSE NotPushed
  /\ AssignFrame

AssignQuaternion(a, v) ==
  /\ pc = "setup"
  /\ assets' = [assets EXCEPT ![a].quaternion = v]
  /\ IF HasSetters(a) /\ v # assets[a].quaternion
     THEN Pushed(a, "quaternion", Quiet(set_quaternion(engine[linked_objects[a]], v)))
     ELSE NotPushed
  /\ AssignFrame

AssignVelocity(a, v) ==
  /\ pc = "setup"
  /\ assets' = [assets EXCEPT ![a].velocity = v]
  /\ IF HasSetters(a) /\ v # assets[a].velocity
     THEN Pushed(a, "velocity", Quiet(set_velocity(engine[linked_objects[a]], v)))
     ELSE NotPushed
  /\ AssignFrame

AssignAngularVelocity(a, v) ==
  /\ pc = "setup"
  /\ assets' = [assets EXCEPT ![a].angular_velocity = v]
  /\ IF HasSetters(a) /\ v # assets[a].angular_velocity
     THEN Pushed(a, "angular_velocity",
                 Quiet(set_angular_velocity(engine[linked_objects[a]], v)))
     ELSE NotPushed
  /\ AssignFrame

AssignMass(a, v) ==
  /\ pc = "setup"
  /\ assets' = [assets EXCEPT ![a].mass = v]
  /\ IF HasSetters(a) /\ v # assets[a].mass
     THEN Pushed(a, "mass", set_mass(engine[linked_objects[a]], v,
                                     [assets[a] EXCEPT !.mass = v]))
     ELSE NotPushed
  /\ AssignFrame

AssignStatic(a, v) ==
  /\ pc = "setup"
  /\ assets' = [assets EXCEPT ![a].static = v]
  /\ IF HasSetters(a) /\ v # assets[a].static
     THEN Pushed(a, "static", set_static(engine[linked_objects[a]], v,
                                         [assets[a] EXCEPT !.static = v]))
     ELSE NotPushed
  /\ AssignFrame

AssignFriction(a, v) ==
  /\ pc = "setup"
  /\ assets' = [assets EXCEPT ![a].friction = v]
  /\ IF HasSetters(a) /\ v # assets[a].friction
     THEN Pushed(a, "friction", set_friction(engine[linked_objects[a]], v))
     ELSE NotPushed
  /\ AssignFrame

AssignRestitution(a, v) ==
  /\ pc = "setup"
  /\ assets' = [assets EXCEPT ![a].restitution = v]
  /\ IF HasSetters(a) /\ v # assets[a].restitution
     THEN Pushed(a, "restitution", set_restitution(engine[linked_objects[a]], v))
     ELSE NotPushed
  /\ AssignFrame

\* A physical object as the scene creates it (kubric's trait defaults),
\* with the metadata run reads.
DefaultAsset ==
  [position |-> 0, quaternion |-> <<1, 0, 0, 0>>, velocity |-> Zero3,
   angular_velocity |-> 0, mass |-> 2, static |-> FALSE,
   friction |-> 0, restitution |-> 0,
   acceleration |-> 0, floatingForce |-> 0,
   engine_on |-> FALSE, floated |-> FALSE, init_speed |-> SlowInitSpeed,
   kind |-> "Cube", background |-> FALSE, uniform_scale |-> TRUE,
   simulation_filename |-> "none"]

NoKeyframes == [attr \in Attributes |-> <<>>]

\* The floor: a static background asset.
FloorAsset == [DefaultAsset EXCEPT !.static = TRUE, !.background = TRUE]

\* The assets SpecSetters drives: one physical object, not yet added.
SetterAssets == {1}

InitSetters ==
  /\ step_rate = 1 /\ frame_rate = 1
  /\ assets = [a \in SetterAssets |-> DefaultAsset]
  /\ linked_objects = [a \in SetterAssets |-> NoBody]
  /\ foreground_assets = <<1>>
  /\ keyframes = [a \in SetterAssets |-> NoKeyframes]
  /\ engine = <<>>
  /\ engine_steps = 0
  /\ applied = <<>>
  /\ change = NoChange
  /\ answer = NoAnswer
  /\ pc = "setup" /\ error = "none"
  /\ frame_start = 0 /\ frame_end = 0
  /\ steps_per_frame = 0 /\ max_step = 0 /\ current_step = 0
  /\ animation = <<>> /\ collisions = <<>>
  /\ collided_with_others = {} /\ collided_with_floor = {} /\ speed_limited = {}
  /\ accelerations = <<>> /\ floatings = <<>>
  /\ read_points = <<>>

NextSetters ==
  \E a \in SetterAssets :
    \/ AddAsset(a)
    \/ \E v \in PositionVals : AssignPosition(a, v)
    \/ \E v \in Quaternions : AssignQuaternion(a, v)
    \/ \E v \in VelocityVals : AssignVelocity(a, v)
    \/ \E v \in AngularVals : AssignAngularVelocity(a, v)
    \/ \E v \in MassVals : AssignMass(a, v)
    \/ \E v \in BOOLEAN : AssignStatic(a, v)
    \/ \E v \in FrictionVals : AssignFriction(a, v)
    \/ \E v \in RestitutionVals : AssignRestitution(a, v)

SpecSetters == InitSetters /\ [][NextSetters]_vars

\* -------------------------------------------- quaternions of any value
\* Every 4-tuple with components up to MaxComponent.
QuaternionInputs == [1..4 -> 0..MaxComponent]

\* The asset of SetterAssets has been created with any quaternion and
\* added; from then on its quaternion is set to any other.
InitQuaternion ==
  /\ step_rate = 1 /\ frame_rate = 1
  /\ \E q \in QuaternionInputs :
       assets = [a \in SetterAssets |-> [DefaultAsset EXCEPT !.quaternion = q]]
  /\ linked_objects = [a \in SetterAssets |-> 0]
  /\ foreground_assets = <<1>>
  /\ keyframes = [a \in SetterAssets |-> NoKeyframes]
  /\ engine = (0 :> add_object(assets[1]))
  /\ engine_steps = 0
  /\ applied = (0 :> [thrust |-> NoCall, floating |-> NoCall])
  /\ change = NoChange
  /\ answer = NoAnswer
  /\ pc = "setup" /\ error = "none"
  /\ frame_start = 0 /\ frame_end = 0
  /\ steps_per_frame = 0 /\ max_step = 0 /\ current_step = 0
  /\ animation = <<>> /\ collisions = <<>>
  /\ collided_with_others = {} /\ collided_with_floor = {} /\ speed_limited = {}
  /\ accelerations = <<>> /\ floatings = <<>>
  /\ read_points = <<>>

NextQuaternion ==
  \E a \in SetterAssets, v \in QuaternionInputs : AssignQuaternion(a, v)

SpecQuaternion == InitQuaternion /\ [][NextQuaternion]_vars

\* ------------------------------------------------ building a scene
\* scene.add(obj): the scene takes the asset in, among its foreground
\* assets unless it is a background asset, and the view adds it.
scene_add(obj) ==
  LET a == Cardinality(DOMAIN assets)
  IN [asset |-> a,
      assets |-> (a :> obj) @@ assets,
      foreground_assets |-> IF obj.background THEN foreground_assets
                            ELSE Append(foreground_assets, a),
      keyframes |-> (a :> NoKeyframes) @@ keyframes]

SceneAdd(obj) ==
  /\ pc = "setup"
  /\ Cardinality(DOMAIN assets) < MaxAssets
  /\ \E id \in NewBodyIds, loaded \in BOOLEAN :
       LET r == add_asset(obj, loaded)
           scene == scene_add(obj)
       IN /\ assets' = scene.assets
          /\ foreground_assets' = scene.foreground_assets
          /\ keyframes' = scene.keyframes
          /\ engine' = EngineWith(id, r)
          /\ applied' = AppliedWith(id, r)
          /\ linked_objects' =
               (scene.asset :> IF r.created THEN id ELSE NoBody) @@ linked_objects
          /\ error' = r.raised
  /\ UNCHANGED <<step_rate, frame_rate, engine_steps, change, queryVars, pc, runLocals>>

\* removeBody(id): the engine forgets the body; nothing happens for a
\* handle it does not hold.
removeBody(bodies, id) == [b \in (DOMAIN bodies) \ {id} |-> bodies[b]]

\* remove_asset(asset): the link of the asset and the setters registered
\* for it stay as they are.
RemoveAsset(a) ==
  /\ pc = "setup"
  /\ IF linked_objects[a] # NoBody
     THEN /\ engine' = removeBody(engine, linked_objects[a])
          /\ applied' = removeBody(applied, linked_objects[a])
     ELSE UNCHANGED <<engine, applied>>
  /\ error' = "none"
  /\ UNCHANGED <<sceneVars, engine_steps, change, queryVars, pc, runLocals>>

\* ------------------------------------------------ overlap queries
\* [getBodyUniqueId(i) for i in range(getNumBodies())]
BodyIds == InOrder(DOMAIN engine)

\* getClosestPoints(a, b, distance=0): the bodies are unit shapes on a
\* line, so they touch exactly when they are at the same place.
getClosestPoints(a, b) ==
  IF engine[a].position = engine[b].position THEN {<<a, b>>} ELSE {}

\* for body_id in body_ids: skip obj_idx, return True at the first body
\* with overlap points.
RECURSIVE AnyOverlap(_, _)
AnyOverlap(obj_idx, body_ids) ==
  IF body_ids = <<>> THEN FALSE
  ELSE IF Head(body_ids) = obj_idx THEN AnyOverlap(obj_idx, Tail(body_ids))
  ELSE IF getClosestPoints(obj_idx, Head(body_ids)) # {} THEN TRUE
  ELSE AnyOverlap(obj_idx, Tail(body_ids))

check_overlap(obj_idx) == AnyOverlap(obj_idx, BodyIds)

\* Mutant: the first body is not left out.
check_foreground_overlap_WithFirst(obj_idx) == AnyOverlap(obj_idx, BodyIds)

\* body_ids = [getBodyUniqueId(i) for i in range(getNumBodies()) if i > 0]
check_foreground_overlap(obj_idx) == AnyOverlap(obj_idx, Tail(BodyIds))

\* body_id = getBodyUniqueId(0)
check_background_overlap(obj_idx) == getClosestPoints(obj_idx, Head(BodyIds)) # {}

\* One of the three queries on asset a.  obj.linked_objects[self] fails
\* for an asset without a link, and the engine for a handle it no longer
\* holds.
Query(name, a) ==
  /\ pc = "setup"
  /\ IF linked_objects[a] = NoBody
     THEN error' = "KeyError" /\ answer' = answer
     ELSE IF linked_objects[a] \notin DOMAIN engine
     THEN error' = "pb.error" /\ answer' = answer
     ELSE /\ error' = "none"
          /\ answer' =
               [query |-> name, obj |-> a,
                overlap |->
                  CASE name = "check_overlap" -> check_overlap(linked_objects[a])
                    [] name = "check_foreground_overlap" ->
                         check_foreground_overlap(linked_objects[a])
                    [] name = "check_background_overlap" ->
                         check_background_overlap(linked_objects[a])]
  /\ UNCHANGED <<sceneVars, engineVars, pc, runLocals>>

Queries == {"check_overlap", "check_foreground_overlap", "check_background_overlap"}

\* ------------------------------------------------ the assets of a scene
Cube(meta, mass, position) ==
  [DefaultAsset EXCEPT !.engine_on = meta.engine_on, !.floated = meta.floated,
                       !.init_speed = meta.init_speed,
                       !.mass = mass, !.position = position]

FileBasedObject(filename, uniform) ==
  [DefaultAsset EXCEPT !.kind = "FileBasedObject",
                       !.simulation_filename = filename,
                       !.uniform_scale = uniform]

OfKind(kind) == [DefaultAsset EXCEPT !.kind = kind]

\* Every way add_asset can go: the two shapes, a sphere scaled unevenly,
\* file-based objects with every kind of file, the ignored classes and a
\* class without a handler.
SetupAssets ==
  {Cube([engine_on |-> TRUE, floated |-> TRUE, init_speed |-> FastInitSpeed], 2, 0),
   Cube([engine_on |-> FALSE, floated |-> FALSE, init_speed |-> SlowInitSpeed], 2, 1),
   OfKind("Sphere"),
   [OfKind("Sphere") EXCEPT !.uniform_scale = FALSE]}
  \cup {FileBasedObject(f, u) : f \in FileNames, u \in BOOLEAN}
  \cup {OfKind(k) : k \in {"Camera", "Light", "Material", "Asset"}}

\* A view on a scene that holds the floor, added first.
InitSetup ==
  /\ step_rate = 2 /\ frame_rate = 1
  /\ assets = (0 :> FloorAsset)
  /\ linked_objects = (0 :> 0)
  /\ foreground_assets = <<>>
  /\ keyframes = (0 :> NoKeyframes)
  /\ engine = (0 :> add_object(FloorAsset))
  /\ engine_steps = 0
  /\ applied = (0 :> [thrust |-> NoCall, floating |-> NoCall])
  /\ change = NoChange
  /\ answer = NoAnswer
  /\ pc = "setup" /\ error = "none"
  /\ frame_start = 0 /\ frame_end = 0
  /\ steps_per_frame = 0 /\ max_step = 0 /\ current_step = 0
  /\ animation = <<>> /\ collisions = <<>>
  /\ collided_with_others = {} /\ collided_with_floor = {} /\ speed_limited = {}
  /\ accelerations = <<>> /\ floatings = <<>>
  /\ read_points = <<>>

NextSetup ==
  \/ \E obj \in SetupAssets : SceneAdd(obj)
  \/ \E a \in DOMAIN assets : RemoveAsset(a)
  \/ \E name \in Queries, a \in DOMAIN assets : Query(name, a)

SpecSetup == InitSetup /\ [][NextSetup]_vars

\* ======================================================= PyBullet.run
\* obj_idxs: the handles of the bodies the engine holds when run starts
\* (the keys of animation).
obj_idxs == DOMAIN animation

EmptyRecord == [attr \in Attributes |-> <<>>]

\* The contact points getContactPoints may return: those of the engine's
\* last advance, so none before the first one, and afterwards any list of
\* at most MaxContacts points between two different bodies (the engine
\* names the later-created body first).  step is the number of the
\* advance that produced the point.
ContactPoints(stamp) ==
  {[body_a |-> pair[1], body_b |-> pair[2], normal_force |-> f, step |-> stamp] :
     pair \in {q \in (DOMAIN engine) \X (DOMAIN engine) : q[1] > q[2]}, f \in ForceVals}

getContactPoints ==
  IF engine_steps = 0 THEN {<<>>}
  ELSE UNION {[1..n -> ContactPoints(engine_steps)] : n \in 0..MaxContacts}

\* self._obj_idx_to_asset(idx)
LinkedTo(idx) == {a \in DOMAIN assets : linked_objects[a] = idx}

_obj_idx_to_asset(idx) ==
  IF Cardinality(LinkedTo(idx)) = 1 THEN CHOOSE a \in LinkedTo(idx) : TRUE
  ELSE NoBody

\* Mutant: one of several linked assets is as good as one.
MultipleAssets_Never(idx) == FALSE

\* len(assets) > 1: raise RuntimeError
MultipleAssets(idx) == Cardinality(LinkedTo(idx)) > 1

\* Mutant: the engine is advanced before the contact points are read.
LoopBody_AdvanceFirst == <<"forces", "step", "contacts", "snapshot">>

\* The statements of the loop body, in the order the loop executes them:
\* the force loop, getContactPoints and its loop, the snapshot,
\* stepSimulation.
LoopBody == <<"forces", "contacts", "snapshot", "step">>

PhaseIndex(phase) == CHOOSE i \in 1..Len(LoopBody) : LoopBody[i] = phase

\* Control after the statement `phase`: the next statement of the body,
\* or, after the last one, the next iteration of
\* for current_step in range(max_step), or the code after the loop.
Continue(phase) ==
  IF PhaseIndex(phase) < Len(LoopBody)
  THEN /\ pc' = LoopBody[PhaseIndex(phase) + 1]
       /\ current_step' = current_step
  ELSE /\ pc' = IF current_step + 1 < max_step THEN LoopBody[1] ELSE "transfer"
       /\ current_step' = current_step + 1

\* Mutant: frame_end is not counted.
MaxStep_ExcludesEnd(fs, fe) == (fe - fs) * (step_rate \div frame_rate)

\* max_step = (frame_end - frame_start + 1) * steps_per_frame
MaxStep(fs, fe) == (fe - fs + 1) * (step_rate \div frame_rate)

\* frame_end, steps_per_frame, max_step and the empty book-keeping.
RunStart(fs, fe) ==
  /\ pc \in {"setup", "start"}
  /\ frame_start' = fs
  /\ frame_end' = fe
  /\ steps_per_frame' = step_rate \div frame_rate
  /\ max_step' = MaxStep(fs, fe)
  /\ animation' = [b \in DOMAIN engine |-> EmptyRecord]
  /\ collisions' = <<>>
  /\ collided_with_others' = {}
  /\ collided_with_floor' = {}
  /\ speed_limited' = {}
  /\ current_step' = 0
  /\ pc' = IF 0 < max_step' THEN LoopBody[1] ELSE "transfer"
  /\ UNCHANGED <<sceneVars, engineVars, queryVars, error, accelerations, floatings,
                 read_points>>

\* scene_obj = self.scene.foreground_assets[obj_idx-1]
scene_obj(obj_idx) == assets[foreground_assets[obj_idx]]

\* np.linalg.norm(velocity[:2]) >= cap, on the squares
PlanarSpeedAtLeast(velocity, cap) ==
  velocity[1] * velocity[1] + velocity[2] * velocity[2] >= cap * cap

\* The overspeed test of one sub-step, on the last recorded velocity.
Overspeed(obj_idx) ==
  /\ animation[obj_idx].velocity # <<>>
  /\ LET last == animation[obj_idx].velocity[Len(animation[obj_idx].velocity)]
         init_speed == scene_obj(obj_idx).init_speed
     IN \/ init_speed = FastInitSpeed /\ PlanarSpeedAtLeast(last, FastSpeedCap)
        \/ init_speed <= SlowInitSpeed /\ PlanarSpeedAtLeast(last, SlowSpeedCap)

SpeedLimitedAfter == speed_limited \cup {b \in obj_idxs \ {0} : Overspeed(b)}

\* if scene_obj.metadata['engine_on'] and not obj_idx in collided_with_others
ThrustOn(obj_idx) ==
  scene_obj(obj_idx).engine_on /\ obj_idx \notin collided_with_others

\* Mutant: buoyancy is stopped by the contact with another object.
FloatOn_UntilObjectContact(obj_idx) ==
  scene_obj(obj_idx).floated /\ obj_idx \notin collided_with_others

\* if scene_obj.metadata['floated'] and not obj_idx in collided_with_floor
FloatOn(obj_idx) ==
  scene_obj(obj_idx).floated /\ obj_idx \notin collided_with_floor

\* Mutant: the cap looks at the current overspeed only, not at speed_limited.
Acceleration_NotSticky(obj_idx) ==
  IF Overspeed(obj_idx) THEN 0 ELSE ThrustAcceleration

\* acceleration = 0 if obj_idx in speed_limited else 3
Acceleration(obj_idx) ==
  IF obj_idx \in SpeedLimitedAfter THEN 0 ELSE ThrustAcceleration

\* The for loop over obj_idxs at the head of a sub-step.
ApplyForces ==
  /\ pc = "forces"
  /\ IF \E b \in obj_idxs : b > Len(foreground_assets)
     THEN /\ pc' = "error"
          /\ error' = "IndexError"
          /\ UNCHANGED <<speed_limited, accelerations, floatings, applied, current_step>>
     ELSE /\ speed_limited' = SpeedLimitedAfter
          /\ accelerations' =
               [b \in obj_idxs \cup {0} |->
                  IF b > 0 /\ ThrustOn(b) THEN Acceleration(b) ELSE 0]
          /\ floatings' =
               [b \in obj_idxs \cup {0} |->
                  IF b > 0 /\ FloatOn(b) THEN FloatAcceleration ELSE 0]
          /\ applied' =
               [b \in DOMAIN engine |->
                  IF b \in obj_idxs /\ b > 0
                  THEN [thrust |-> IF ThrustOn(b)
                                   THEN Acceleration(b) * scene_obj(b).mass
                                   ELSE NoCall,
                        floating |-> IF FloatOn(b)
                                     THEN FloatAcceleration * scene_obj(b).mass
                                     ELSE NoCall]
                  ELSE applied[b]]
          /\ Continue("forces")
          /\ error' = error
  /\ UNCHANGED <<sceneVars, engine, engine_steps, change, queryVars,
                 frame_start, frame_end, steps_per_frame, max_step,
                 animation, collisions, collided_with_others, collided_with_floor,
                 read_points>>

\* The collision event of one contact point.
Event(point) ==
  [instances |-> <<_obj_idx_to_asset(point.body_b), _obj_idx_to_asset(point.body_a)>>,
   frame |-> [num |-> current_step, den |-> steps_per_frame],
   force |-> point.normal_force]

\* Mutant: a force at the threshold is recorded too.
Recorded_AtThreshold(point) == point.normal_force >= ForceThreshold

\* if normal_force > 1e-6
Recorded(point) == point.normal_force > ForceThreshold

RECURSIVE EventsOf(_)
EventsOf(points) ==
  IF points = <<>> THEN <<>>
  ELSE (IF Recorded(Head(points)) THEN <<Event(Head(points))>> ELSE <<>>)
       \o EventsOf(Tail(points))

Range(seq) == {seq[i] : i \in 1..Len(seq)}

\* Mutant: the floor contact marks the lower handle, the floor itself.
CollidedWithFloorAfter_MarksFloor(points) ==
  collided_with_floor \cup
    {Min(p.body_a, p.body_b) : p \in {q \in Range(points) : Min(q.body_a, q.body_b) = 0}}

\* collided_with_floor.add(collision_obj_2) when collision_obj_1 == 0
CollidedWithFloorAfter(points) ==
  collided_with_floor \cup
    {Max(p.body_a, p.body_b) : p \in {q \in Range(points) : Min(q.body_a, q.body_b) = 0}}

\* Mutant: every contact marks both bodies, a contact with the floor too.
CollidedWithOthersAfter_AnyContact(points) ==
  collided_with_others \cup UNION {{p.body_a, p.body_b} : p \in Range(points)}

\* collided_with_others.add(collision_obj_1); collided_with_others.add(collision_obj_2)
CollidedWithOthersAfter(points) ==
  collided_with_others \cup
    UNION {{p.body_a, p.body_b} : p \in {q \in Range(points) : Min(q.body_a, q.body_b) # 0}}

\* contact_points = getContactPoints() and the loop over them.
ReadContacts ==
  /\ pc = "contacts"
  /\ \E contact_points \in getContactPoints :
       /\ read_points' = read_points \o
                            [i \in 1..Len(contact_points) |->
                               [point |-> contact_points[i], read_at |-> current_step]]
       /\ IF \E p \in Range(contact_points) :
               Recorded(p) /\ (MultipleAssets(p.body_a) \/ MultipleAssets(p.body_b))
          THEN /\ pc' = "error"
               /\ error' = "RuntimeError"
               /\ UNCHANGED <<collisions, collided_with_floor, collided_with_others,
                              current_step>>
          ELSE /\ collisions' = collisions \o EventsOf(contact_points)
               /\ collided_with_floor' = CollidedWithFloorAfter(contact_points)
               /\ collided_with_others' = CollidedWithOthersAfter(contact_points)
               /\ Continue("contacts")
               /\ error' = error
  /\ UNCHANGED <<sceneVars, engineVars, queryVars,
                 frame_start, frame_end, steps_per_frame, max_step,
                 animation, speed_limited, accelerations, floatings>>

\* Mutant: the two force flags are appended to each other's list.
SnapshotOf_FlagsSwapped(b) ==
  [position |-> engine[b].position,
   quaternion |-> xyzw2wxyz(engine[b].quaternion),
   velocity |-> engine[b].velocity,
   angular_velocity |-> engine[b].angular_velocity,
   acceleration |-> floatings[b],
   floatingForce |-> accelerations[b]]

\* get_position_and_rotation / get_velocities and the six appends.
SnapshotOf(b) ==
  [position |-> engine[b].position,
   quaternion |-> xyzw2wxyz(engine[b].quaternion),
   velocity |-> engine[b].velocity,
   angular_velocity |-> engine[b].angular_velocity,
   acceleration |-> accelerations[b],
   floatingForce |-> floatings[b]]

\* Mutant: the snapshot is taken in the last sub-step of a frame.
SnapshotDue_EndOfFrame == current_step % steps_per_frame = steps_per_frame - 1

\* if current_step % steps_per_frame == 0
SnapshotDue == current_step % steps_per_frame = 0

Snapshot ==
  /\ pc = "snapshot"
  /\ animation' =
       IF SnapshotDue
       THEN [b \in obj_idxs |->
               [attr \in Attributes |-> Append(animation[b][attr], SnapshotOf(b)[attr])]]
       ELSE animation
  /\ Continue("snapshot")
  /\ UNCHANGED <<sceneVars, engineVars, queryVars, error,
                 frame_start, frame_end, steps_per_frame, max_step,
                 collisions, collided_with_others, collided_with_floor,
                 speed_limited, accelerations, floatings, read_points>>

\* self._physics_client.stepSimulation(): the engine moves every body of
\* non-zero mass, gives it a velocity of its own choosing and clears the
\* external forces.
StepSimulation ==
  /\ pc = "step"
  /\ engine_steps' = engine_steps + 1
  /\ \E velocities \in [{b \in DOMAIN engine : engine[b].mass > 0} -> VelocityVals] :
       engine' = [b \in DOMAIN engine |->
                    IF engine[b].mass > 0
                    THEN [engine[b] EXCEPT !.position = @ + 1,
                                           !.velocity = velocities[b]]
                    ELSE engine[b]]
  /\ applied' = [b \in DOMAIN engine |-> [thrust |-> NoCall, floating |-> NoCall]]
  /\ Continue("step")
  /\ UNCHANGED <<sceneVars, change, queryVars, error,
                 frame_start, frame_end, steps_per_frame, max_step,
                 animation, collisions, collided_with_others, collided_with_floor,
                 speed_limited, accelerations, floatings, read_points>>

\* ------------------------------------- transfer to keyframes (after the loop)
\* The assets the re-keyed animation holds (InOrder gives them in the
\* order of scene.assets).
Tracked == {a \in DOMAIN assets : linked_objects[a] \in obj_idxs}

NumFrames == frame_end - frame_start + 1

\* One pass of the inner loop body for asset a: the six assignments, each
\* pushed to the engine by its setter when the value changes, and the six
\* keyframe_insert calls.  st holds the assets, the engine, the keyframes
\* and the last change delivered.
WriteFrame(st, a, frame_id) ==
  LET rec == animation[linked_objects[a]]
      i == frame_id + 1
      obj == st.assets[a]
      idx == linked_objects[a]
      body0 == st.engine[idx]
      body1 == IF rec.position[i] # obj.position
               THEN set_position(body0, rec.position[i]) ELSE body0
      body2 == IF rec.quaternion[i] # obj.quaternion
               THEN set_quaternion(body1, rec.quaternion[i]) ELSE body1
      body3 == IF rec.velocity[i] # obj.velocity
               THEN set_velocity(body2, rec.velocity[i]) ELSE body2
      body4 == IF rec.angular_velocity[i] # obj.angular_velocity
               THEN set_angular_velocity(body3, rec.angular_velocity[i]) ELSE body3
      last == IF rec.angular_velocity[i] # obj.angular_velocity THEN "angular_velocity"
              ELSE IF rec.velocity[i] # obj.velocity THEN "velocity"
              ELSE IF rec.quaternion[i] # obj.quaternion THEN "quaternion"
              ELSE IF rec.position[i] # obj.position THEN "position"
              ELSE "none"
  IN [assets |-> [st.assets EXCEPT ![a] =
                    [obj EXCEPT !.position = rec.position[i],
                                !.quaternion = rec.quaternion[i],
                                !.velocity = rec.velocity[i],
                                !.angular_velocity = rec.angular_velocity[i],
                                !.acceleration = rec.acceleration[i],
                                !.floatingForce = rec.floatingForce[i]]],
      engine |-> [st.engine EXCEPT ![idx] = body4],
      keyframes |-> [st.keyframes EXCEPT ![a] =
                       [attr \in Attributes |->
                          Append(st.keyframes[a][attr],
                                 [frame |-> frame_id + frame_start,
                                  value |-> rec[attr][i]])]],
      change |-> IF last = "none" THEN st.change ELSE [name |-> last, owner |-> a]]

\* for frame_id in range(frame_end - frame_start + 1)
RECURSIVE WriteFrames(_, _, _)
WriteFrames(st, a, frame_id) ==
  IF frame_id >= NumFrames THEN st
  ELSE WriteFrames(WriteFrame(st, a, frame_id), a, frame_id + 1)

\* for obj in animation.keys()
RECURSIVE WriteAssets(_, _)
WriteAssets(st, objs) ==
  IF objs = <<>> THEN st
  ELSE WriteAssets(WriteFrames(st, Head(objs), 0), Tail(objs))

\* Every list of one run has the same length, so a record too short for
\* frame_id fails at the first assignment, before anything is written.
RecordTooShort ==
  \E a \in Tracked : Len(animation[linked_objects[a]].position) < NumFrames

Transfer ==
  /\ pc = "transfer"
  /\ IF RecordTooShort
     THEN /\ pc' = "error"
          /\ error' = "IndexError"
          /\ UNCHANGED <<assets, engine, keyframes, change>>
     ELSE LET st == WriteAssets([assets |-> assets, engine |-> engine,
                                 keyframes |-> keyframes, change |-> change],
                                InOrder(Tracked))
          IN /\ assets' = st.assets
             /\ engine' = st.engine
             /\ keyframes' = st.keyframes
             /\ change' = st.change
             /\ pc' = "done"
             /\ error' = error
  /\ UNCHANGED <<step_rate, frame_rate, linked_objects, foreground_assets,
                 engine_steps, applied, queryVars,
                 frame_start, frame_end, steps_per_frame, max_step, current_step,
                 animation, collisions, collided_with_others, collided_with_floor,
                 speed_limited, accelerations, floatings, read_points>>

\* ------------------------------------------------------ the run's scene
\* A floor (static, body 0) and NumForeground objects, each added to the
\* view in scene order, so that foreground_assets[i-1] is linked to body i.
\* The foreground objects are built from one template: any metadata and
\* any initial velocity.
Metadata == [engine_on : BOOLEAN, floated : BOOLEAN, init_speed : InitSpeeds]

SceneAssets(meta, velocity) ==
  [a \in 0..NumForeground |->
     IF a = 0 THEN FloorAsset
     ELSE [DefaultAsset EXCEPT !.engine_on = meta.engine_on,
                               !.floated = meta.floated,
                               !.init_speed = meta.init_speed,
                               !.velocity = velocity]]

Init ==
  /\ step_rate \in StepRates
  /\ frame_rate \in FrameRates
  /\ \E meta \in Metadata, velocity \in VelocityVals :
       assets = SceneAssets(meta, velocity)
  /\ linked_objects = [a \in 0..NumForeground |-> a]
  /\ foreground_assets = [i \in 1..NumForeground |-> i]
  /\ keyframes = [a \in 0..NumForeground |-> NoKeyframes]
  /\ engine = [b \in 0..NumForeground |->
                 set_velocity(add_object(assets[b]), assets[b].velocity)]
  /\ engine_steps = 0
  /\ applied = [b \in 0..NumForeground |-> [thrust |-> NoCall, floating |-> NoCall]]
  /\ change = NoChange
  /\ answer = NoAnswer
  /\ pc = "start" /\ error = "none"
  /\ frame_start = 0 /\ frame_end = 0
  /\ steps_per_frame = 0 /\ max_step = 0 /\ current_step = 0
  /\ animation = <<>> /\ collisions = <<>>
  /\ collided_with_others = {} /\ collided_with_floor = {} /\ speed_limited = {}
  /\ accelerations = <<>> /\ floatings = <<>>
  /\ read_points = <<>>

Next ==
  \/ \E fs \in FrameStarts, n \in (-1)..MaxFrames : RunStart(fs, fs + n - 1)
  \/ ApplyForces
  \/ ReadContacts
  \/ Snapshot
  \/ StepSimulation
  \/ Transfer

Spec == Init /\ [][Next]_vars

\* ------------------------------------------- a run on a scene as built
\* The assets a scene is built from before a run: a moving cube that is
\* pushed and floated, a cube of mass 0 that is neither, and a file-based
\* object without simulation file, for which no body is created.
RunAssets ==
  {Cube([engine_on |-> TRUE, floated |-> TRUE, init_speed |-> FastInitSpeed], 2, 0),
   Cube([engine_on |-> TRUE, floated |-> FALSE, init_speed |-> SlowInitSpeed], 0, 1),
   FileBasedObject("none", TRUE)}

\* Assets are added to and removed from the scene, then run(0, 0) is
\* called, with two sub-steps for the frame.
NextScene ==
  \/ \E obj \in RunAssets : SceneAdd(obj)
  \/ \E a \in DOMAIN assets : RemoveAsset(a)
  \/ RunStart(0, 0)
  \/ ApplyForces
  \/ ReadContacts
  \/ Snapshot
  \/ StepSimulation
  \/ Transfer

SpecScene == InitSetup /\ [][NextScene]_vars

\* ============================================================ claims
\* What the claims speak of, read off the state.
ForegroundBodies == obj_idxs \ {0}

\* A contact point between body b and the floor body was read in an
\* earlier sub-step of this run.
FloorContactRead(b) ==
  \E i \in 1..Len(read_points) :
     {read_points[i].point.body_a, read_points[i].point.body_b} = {0, b}

\* A contact point between body b and another non-floor body was read in
\* an earlier sub-step of this run.
ObjectContactRead(b) ==
  \E i \in 1..Len(read_points) :
     /\ b \in {read_points[i].point.body_a, read_points[i].point.body_b}
     /\ 0 \notin {read_points[i].point.body_a, read_points[i].point.body_b}

\* The asset body b belongs to.
AssetOf(b) == assets[_obj_idx_to_asset(b)]

\* The forces of the current sub-step have been applied and its contact
\* points have not been read yet.
ForcesApplied == pc = "contacts"

BuoyancyApplied(b) == applied[b].floating # NoCall
ThrustApplied(b) == applied[b].thrust # NoCall

\* C1: once a contact between body b and the floor has been read, no
\* later sub-step applies buoyancy to b; once a contact between b and
\* another object has been read, no later sub-step applies thrust to b.
C1_NoForceAfterContact ==
  ForcesApplied =>
    \A b \in ForegroundBodies :
       /\ FloorContactRead(b) => ~BuoyancyApplied(b)
       /\ ObjectContactRead(b) => ~ThrustApplied(b)

\* C1 witness: a sub-step after a floated body touched the floor and after
\* a body with its engine on touched another object.
C1_Witness ==
  /\ ForcesApplied
  /\ \E b \in ForegroundBodies :
       AssetOf(b).floated /\ FloorContactRead(b) /\ ~BuoyancyApplied(b)
  /\ \E b \in ForegroundBodies :
       AssetOf(b).engine_on /\ ObjectContactRead(b) /\ ~ThrustApplied(b)

\* C2 as stated: in every sub-step buoyancy is applied to a non-floor body
\* exactly when its asset is floated and no contact of the body with
\* another non-floor body has been read before.
C2_BuoyancyUntilObjectContact ==
  ForcesApplied =>
    \A b \in ForegroundBodies :
       BuoyancyApplied(b) <=> (AssetOf(b).floated /\ ~ObjectContactRead(b))

\* C2 amended: in every sub-step buoyancy is applied to a non-floor body
\* exactly when its asset is floated and no contact of the body with the
\* floor has been read before; a contact with another object does not
\* stop it.
C2_BuoyancyUntilFloorContact ==
  ForcesApplied =>
    \A b \in ForegroundBodies :
       BuoyancyApplied(b) <=> (AssetOf(b).floated /\ ~FloorContactRead(b))

\* C2 witness: a floated body that has touched another object, not the
\* floor, still receives buoyancy.
C2_Witness ==
  /\ ForcesApplied
  /\ \E b \in ForegroundBodies :
       /\ AssetOf(b).floated /\ ObjectContactRead(b) /\ ~FloorContactRead(b)
       /\ BuoyancyApplied(b)
  /\ \E b \in ForegroundBodies :
       AssetOf(b).floated /\ FloorContactRead(b) /\ ~BuoyancyApplied(b)

\* The planar speed of a recorded velocity is above the cap of the asset.
AboveCap(asset, velocity) ==
  LET square == velocity[1] * velocity[1] + velocity[2] * velocity[2]
  IN \/ asset.init_speed = FastInitSpeed /\ square > FastSpeedCap * FastSpeedCap
     \/ asset.init_speed <= SlowInitSpeed /\ square > SlowSpeedCap * SlowSpeedCap

\* Some velocity recorded for body b so far was above the cap.
ExceededCap(b) ==
  \E j \in 1..Len(animation[b].velocity) : AboveCap(AssetOf(b), animation[b].velocity[j])

\* C3: once the last recorded planar speed of a non-floor body exceeded
\* the cap of its asset, the thrust applied to it is zero in every
\* sub-step from then on; the floor body receives neither force.
C3_ThrustZeroOnceCapped ==
  ForcesApplied =>
    /\ \A b \in ForegroundBodies : ExceededCap(b) => applied[b].thrust \in {NoCall, 0}
    /\ 0 \in obj_idxs => ~ThrustApplied(0) /\ ~BuoyancyApplied(0)

\* C3 witness: a body with its engine on whose speed exceeded the cap and
\* has since dropped below it is pushed with zero thrust.
C3_Witness ==
  /\ ForcesApplied
  /\ \E b \in ForegroundBodies :
       /\ ExceededCap(b)
       /\ ~AboveCap(AssetOf(b), animation[b].velocity[Len(animation[b].velocity)])
       /\ applied[b].thrust = 0

\* The engine body of an asset that has been added to the view.
BodyOf(a) == engine[linked_objects[a]]

\* C4: whenever the static flag of an added asset is true, the mass the
\* engine holds for its body is 0, whatever the mass of the asset.
C4_StaticHasZeroMass ==
  \A a \in DOMAIN assets :
     HasSetters(a) /\ assets[a].static => BodyOf(a).mass = 0

\* C4 witness: the mass of an added static asset was just changed to a
\* positive value.
C4_Witness ==
  \E a \in DOMAIN assets :
     /\ HasSetters(a) /\ assets[a].static /\ assets[a].mass > 0
     /\ change = [name |-> "mass", owner |-> a]
     /\ BodyOf(a).mass = 0

\* C5: a position change leaves the velocity, the angular velocity and the
\* orientation of the engine body as they were; a quaternion change leaves
\* position and both velocities; a velocity change leaves the angular
\* velocity and an angular velocity change the velocity.
C5_SettersKeepTheRest ==
  [][\A a \in DOMAIN assets :
       HasSetters(a) =>
         /\ assets'[a].position # assets[a].position =>
              /\ BodyOf(a)'.position = assets'[a].position
              /\ BodyOf(a)'.velocity = BodyOf(a).velocity
              /\ BodyOf(a)'.angular_velocity = BodyOf(a).angular_velocity
              /\ BodyOf(a)'.quaternion = BodyOf(a).quaternion
         /\ assets'[a].quaternion # assets[a].quaternion =>
              /\ BodyOf(a)'.position = BodyOf(a).position
              /\ BodyOf(a)'.velocity = BodyOf(a).velocity
              /\ BodyOf(a)'.angular_velocity = BodyOf(a).angular_velocity
         /\ assets'[a].velocity # assets[a].velocity =>
              BodyOf(a)'.angular_velocity = BodyOf(a).angular_velocity
         /\ assets'[a].angular_velocity # assets[a].angular_velocity =>
              BodyOf(a)'.velocity = BodyOf(a).velocity]_vars

\* C5 witness: the position of a moving, spinning, turned body was just set.
C5_Witness ==
  \E a \in DOMAIN assets :
     /\ HasSetters(a)
     /\ change = [name |-> "position", owner |-> a]
     /\ BodyOf(a).velocity # Zero3
     /\ BodyOf(a).angular_velocity # 0
     /\ BodyOf(a).quaternion # wxyz2xyzw(DefaultAsset.quaternion)
     /\ BodyOf(a).position = assets[a].position

\* C6: a change of mass or friction to a negative value, or of restitution
\* to a value below 0 or above 1, raises a validation error and leaves
\* what the engine holds as it was.
C6_RejectedChangeLeavesEngine ==
  [][\A a \in DOMAIN assets :
       ( /\ HasSetters(a)
         /\ \/ assets'[a].mass # assets[a].mass /\ assets'[a].mass < 0
            \/ assets'[a].friction # assets[a].friction /\ assets'[a].friction < 0
            \/ /\ assets'[a].restitution # assets[a].restitution
               /\ (assets'[a].restitution < 0 \/ assets'[a].restitution > MaxRestitution) )
       => error' = "ValueError" /\ engine' = engine]_vars

\* C6 witness: a restitution above 1 was just rejected for a body whose
\* restitution had been set before.
C6_Witness ==
  \E a \in DOMAIN assets :
     /\ HasSetters(a)
     /\ error = "ValueError"
     /\ change = [name |-> "restitution", owner |-> a]
     /\ assets[a].restitution > MaxRestitution
     /\ BodyOf(a).restitution = MaxRestitution

\* The loop of run has ended.
LoopEnded == pc \in {"transfer", "done"}

InLoop == pc \in {"forces", "contacts", "snapshot", "step"}

\* A measure of the work a run still has to do; 0 once it has returned or
\* raised.
Rank ==
  CASE pc = "start" -> 3 + 4 * MaxFrames * (step_rate \div frame_rate)
    [] InLoop -> 3 + 4 * (max_step - current_step) - PhaseIndex(pc)
    [] pc = "transfer" -> 1
    [] OTHER -> 0

\* C7 as stated: a run that returns has advanced the engine exactly
\* (frame_end - frame_start + 1) * (step_rate // frame_rate) times.
C7_StepsAsStated ==
  pc = "done" =>
    engine_steps = (frame_end - frame_start + 1) * (step_rate \div frame_rate)

\* C7 amended: a run always ends (every step of it lowers Rank, which is
\* never negative), and when its loop ends it has advanced the engine
\* exactly max(0, (frame_end - frame_start + 1) * (step_rate // frame_rate))
\* times: step_rate // frame_rate times for each frame from frame_start to
\* frame_end, and not at all when frame_end < frame_start.
C7_TerminatesAfterSteps ==
  [][/\ Rank' < Rank
     /\ Rank' >= 0
     /\ InLoop' => current_step' < max_step' /\ engine_steps' = current_step'
     /\ LoopEnded' =>
          /\ engine_steps' =
               Max(0, (frame_end' - frame_start' + 1) * (step_rate' \div frame_rate'))
          /\ engine_steps' =
               Cardinality(frame_start'..frame_end') * (step_rate' \div frame_rate')]_vars

\* C7 witness: a run over two frames with two sub-steps per frame has
\* returned after four advances of the engine.
C7_Witness ==
  /\ pc = "done"
  /\ frame_end = frame_start + 1
  /\ steps_per_frame = 2
  /\ engine_steps = 4

\* The keyframes run has to insert for one attribute of a record.
KeyframesOf(list) ==
  [i \in 1..Len(list) |-> [frame |-> frame_start + i - 1, value |-> list[i]]]

RecordsAndKeyframes ==
  \A a \in Tracked : \A attr \in Attributes :
     /\ Len(animation[linked_objects[a]][attr]) = frame_end - frame_start + 1
     /\ keyframes[a][attr] = KeyframesOf(animation[linked_objects[a]][attr])

\* C8: for every step rate and frame rate and every frame_start <=
\* frame_end, run returns, for each tracked asset, a record of exactly
\* frame_end - frame_start + 1 entries per attribute, and inserts for each
\* attribute exactly one keyframe per frame index frame_start..frame_end,
\* carrying the value recorded for that frame.
C8_RecordsAndKeyframes ==
  pc \in {"done", "error"} /\ frame_start <= frame_end =>
    pc = "done" /\ RecordsAndKeyframes

\* C8 where it holds: with at least one sub-step per frame.
C8_WithSubSteps ==
  pc \in {"done", "error"} /\ frame_start <= frame_end /\ step_rate >= frame_rate =>
    pc = "done" /\ RecordsAndKeyframes

\* C9 as stated: the contact points read in a sub-step are those of the
\* advance of that sub-step, which has been made when they are read.
C9_ContactsOfOwnAdvance ==
  /\ \A i \in 1..Len(read_points) :
        read_points[i].point.step = read_points[i].read_at + 1
  /\ pc = "snapshot" => engine_steps = current_step + 1

\* C9 amended: in each sub-step the forces are applied, then the contact
\* points are read, then the snapshot is taken when due, and the engine is
\* advanced last.  The contact points read in sub-step k are those the
\* engine holds after k advances: those of the advance of sub-step k - 1,
\* and none in sub-step 0.
C9_ContactsOfPreviousAdvance ==
  /\ \A i \in 1..Len(read_points) :
        /\ read_points[i].point.step = read_points[i].read_at
        /\ read_points[i].read_at >= 1
  /\ InLoop => engine_steps = current_step
  /\ pc = "forces" => \A b \in obj_idxs : ~ThrustApplied(b) /\ ~BuoyancyApplied(b)
  /\ pc \in {"contacts", "snapshot", "step"} =>
       \A b \in obj_idxs : BuoyancyApplied(b) <=> floatings[b] # 0

\* C9 witness: the contact points of sub-step 1 have been read while
\* buoyancy was applied, before the advance of that sub-step.
C9_Witness ==
  /\ pc = "snapshot"
  /\ current_step = 1
  /\ \E i \in 1..Len(read_points) : read_points[i].read_at = 1
  /\ \E b \in obj_idxs : BuoyancyApplied(b)

\* The contact points read so far whose force is above the threshold.
StrongPoints ==
  SelectSeq(read_points, LAMBDA r : r.point.normal_force > ForceThreshold)

\* C10: run records exactly one collision event for each contact point it
\* read with a normal force above the threshold, and none for the others.
C10_EventPerStrongContact ==
  /\ Len(collisions) = Len(StrongPoints)
  /\ \A i \in 1..Len(collisions) :
       /\ collisions[i].force > ForceThreshold
       /\ i <= Len(StrongPoints) =>
            /\ collisions[i].force = StrongPoints[i].point.normal_force
            /\ collisions[i].instances =
                 <<StrongPoints[i].point.body_b, StrongPoints[i].point.body_a>>

\* C10 witness: a run has returned after reading a contact point at the
\* threshold and one above it.
C10_Witness ==
  /\ pc = "done"
  /\ \E i \in 1..Len(read_points) : read_points[i].point.normal_force = ForceThreshold
  /\ \E i \in 1..Len(read_points) : read_points[i].point.normal_force > ForceThreshold
  /\ Len(collisions) = 1

\* ----------------------------------------------------- adding assets
\* The step adds an asset to the scene; Added is that asset.
IsAdd == DOMAIN assets' # DOMAIN assets
Added == Cardinality(DOMAIN assets)

\* The step left the bodies of the engine and the setters registered
\* before it as they were, and registered none for the added asset.
NothingCreated ==
  /\ engine' = engine
  /\ linked_objects'[Added] = NoBody
  /\ \A a \in DOMAIN assets : linked_objects'[a] = linked_objects[a]

\* The file of a file-based asset is missing or is not a URDF.
BadFile(obj) ==
  /\ obj.kind = "FileBasedObject"
  /\ obj.simulation_filename # "none"
  /\ \/ ~PathExists(obj.simulation_filename)
     \/ Suffix(obj.simulation_filename) # ".urdf"

\* C11 as stated: add_asset creates no body and registers no setters for
\* a camera, light or material; it fails with an I/O error and creates
\* nothing when the file of a file-based asset does not exist or is not a
\* .urdf; it fails with NotImplementedError for a class without handler.
C11_AddAssetFailures ==
  [][IsAdd =>
       LET obj == assets'[Added]
       IN /\ obj.kind \in {"Camera", "Light", "Material"} =>
               NothingCreated /\ error' = "none"
          /\ BadFile(obj) => NothingCreated /\ error' = "IOError"
          /\ obj.kind = "Asset" => NothingCreated /\ error' = "NotImplementedError"]_vars

\* C11 amended: as stated, except that an existing file that is not a
\* .urdf gives the I/O error only for a uniformly scaled asset; for an
\* unevenly scaled one the scale assertion fails first.  Nothing is
\* created in either case.
C11_AddAssetFailuresByScale ==
  [][IsAdd =>
       LET obj == assets'[Added]
       IN /\ obj.kind \in {"Camera", "Light", "Material"} =>
               NothingCreated /\ error' = "none"
          /\ BadFile(obj) =>
               /\ NothingCreated
               /\ error' = IF PathExists(obj.simulation_filename) /\ ~obj.uniform_scale
                           THEN "AssertionError" ELSE "IOError"
          /\ obj.kind = "Asset" => NothingCreated /\ error' = "NotImplementedError"]_vars

\* C11 witness: a uniformly scaled file-based asset with an existing mesh
\* that is not a URDF was just refused, in a scene that holds two bodies.
C11_Witness ==
  /\ pc = "setup"
  /\ error = "IOError"
  /\ Cardinality(DOMAIN engine) = 2
  /\ LET last == Cardinality(DOMAIN assets) - 1
     IN /\ assets[last] = FileBasedObject("mesh.obj", TRUE)
        /\ linked_objects[last] = NoBody

\* ------------------------------------------------- assets and handles
\* Every link leads to a body the engine holds, and no two assets are
\* linked to the same body.
LinksOneToOne ==
  \A a \in DOMAIN assets :
     linked_objects[a] # NoBody =>
       /\ linked_objects[a] \in DOMAIN engine
       /\ \A b \in DOMAIN assets : linked_objects[b] = linked_objects[a] => b = a

\* Two different assets are linked to handle idx.
SharedHandle(idx) ==
  \E a, b \in DOMAIN assets :
     a # b /\ linked_objects[a] = idx /\ linked_objects[b] = idx

\* The contact points the step read.
JustRead == {read_points'[i].point : i \in (Len(read_points) + 1)..Len(read_points')}

\* C12: add_asset keeps the links one-to-one, so they are after any
\* sequence of add_asset calls; and when run resolves a handle that more
\* than one asset is linked to, it raises RuntimeError and returns
\* nothing.
C12_OneBodyPerAsset ==
  [][/\ IsAdd /\ LinksOneToOne => LinksOneToOne'
     /\ (\E p \in JustRead :
           /\ p.normal_force > ForceThreshold
           /\ SharedHandle(p.body_a) \/ SharedHandle(p.body_b))
         => pc' = "error" /\ error' = "RuntimeError"]_vars

\* C12 witness: run has stopped on a handle that two assets are linked
\* to, the handle of a removed body having been given to a body added
\* later.
C12_Witness ==
  /\ pc = "error"
  /\ error = "RuntimeError"
  /\ \E b \in DOMAIN engine : SharedHandle(b)

\* ----------------------------------------------------- overlap queries
\* The floor body: the body with handle 0.
FloorBody == 0

\* Body idx has a zero-distance contact point with body b.
Touches(idx, b) == getClosestPoints(idx, b) # {}

\* What each query is said to tell about the body idx of a tracked asset.
Overlaps(name, idx) ==
  CASE name = "check_overlap" ->
         \E b \in DOMAIN engine : b # idx /\ Touches(idx, b)
    [] name = "check_foreground_overlap" ->
         \E b \in DOMAIN engine : b # idx /\ b # FloorBody /\ Touches(idx, b)
    [] name = "check_background_overlap" -> Touches(idx, FloorBody)

\* C13: in a scene whose floor body is in the engine, each query on a
\* tracked asset returns what it is said to tell, and changes neither the
\* engine nor the assets; for a non-floor asset check_overlap is
\* check_foreground_overlap or check_background_overlap.
C13_OverlapQueries ==
  [][\A a \in DOMAIN assets :
       /\ linked_objects[a] \in DOMAIN engine
       /\ FloorBody \in DOMAIN engine
       /\ answer' # answer
       /\ answer'.obj = a
       => /\ answer'.overlap <=> Overlaps(answer'.query, linked_objects[a])
          /\ UNCHANGED <<sceneVars, engineVars>>
          /\ linked_objects[a] # FloorBody =>
               (check_overlap(linked_objects[a]) <=>
                  \/ check_foreground_overlap(linked_objects[a])
                  \/ check_background_overlap(linked_objects[a]))]_vars

\* C13 witness: check_foreground_overlap has just said no for an asset
\* whose body touches the floor and no other of the three bodies.
C13_Witness ==
  /\ answer.query = "check_foreground_overlap"
  /\ ~answer.overlap
  /\ error = "none"
  /\ Cardinality(DOMAIN engine) = 3
  /\ FloorBody \in DOMAIN engine
  /\ linked_objects[answer.obj] \in DOMAIN engine \ {FloorBody}
  /\ Touches(linked_objects[answer.obj], FloorBody)
  /\ check_overlap(linked_objects[answer.obj])
  /\ ~check_foreground_overlap(linked_objects[answer.obj])

\* --------------------------------------------------------- quaternions
\* C14: for every quaternion q an asset holds, xyzw2wxyz(wxyz2xyzw(q)) = q;
\* for every quaternion q the engine holds, wxyz2xyzw(xyzw2wxyz(q)) = q;
\* so what get_position_and_rotation reads back is what was set.
C14_QuaternionRoundTrip ==
  \A a \in DOMAIN assets :
     HasSetters(a) =>
       /\ xyzw2wxyz(wxyz2xyzw(assets[a].quaternion)) = assets[a].quaternion
       /\ wxyz2xyzw(xyzw2wxyz(BodyOf(a).quaternion)) = BodyOf(a).quaternion
       /\ xyzw2wxyz(BodyOf(a).quaternion) = assets[a].quaternion

\* C14 witness: a quaternion whose four components are not all the same,
\* with the first unlike the last, was just set.
C14_Witness ==
  \E a \in DOMAIN assets :
     /\ change = [name |-> "quaternion", owner |-> a]
     /\ assets[a].quaternion = <<2, 0, 1, 1>>
     /\ BodyOf(a).quaternion = <<0, 1, 1, 2>>

\* ------------------------------------------------------- the snapshots
\* The engine state of body b as get_position_and_rotation and
\* get_velocities report it.
EngineState(b) ==
  [position |-> engine[b].position,
   quaternion |-> <<engine[b].quaternion[4], engine[b].quaternion[1],
                    engine[b].quaternion[2], engine[b].quaternion[3]>>,
   velocity |-> engine[b].velocity,
   angular_velocity |-> engine[b].angular_velocity]

Motion == {"position", "quaternion", "velocity", "angular_velocity"}

\* C15: a snapshot is taken exactly in the sub-steps whose index is a
\* multiple of steps_per_frame, before the advance of that sub-step: entry
\* k of a body's record is the body's engine state after exactly
\* k * (step_rate // frame_rate) advances (a body of non-zero mass has then
\* moved that many times from where its asset was put), and the keyframe
\* for frame_start holds entry 0, the state before any advance.
C15_SnapshotBeforeAdvance ==
  [][/\ pc \in {"forces", "contacts", "step"} => animation' = animation
     /\ pc = "snapshot" =>
          \A b \in obj_idxs :
             LET k == Len(animation[b].position)
             IN IF \E n \in 0..current_step : n * steps_per_frame = current_step
                THEN /\ \A attr \in Attributes : Len(animation'[b][attr]) = k + 1
                     /\ k * (step_rate \div frame_rate) = current_step
                     /\ engine_steps = k * (step_rate \div frame_rate)
                     /\ \A attr \in Motion :
                          animation'[b][attr][k + 1] = EngineState(b)[attr]
                     /\ \A a \in DOMAIN assets :
                          linked_objects[a] = b =>
                            animation'[b].position[k + 1] =
                              assets[a].position +
                                (IF engine[b].mass > 0
                                 THEN k * (step_rate \div frame_rate) ELSE 0)
                     /\ engine' = engine
                ELSE animation'[b] = animation[b]
     /\ pc = "transfer" /\ pc' = "done" /\ frame_start <= frame_end =>
          \A a \in Tracked :
             /\ keyframes'[a].position[1] =
                  [frame |-> frame_start, value |-> assets[a].position]
             /\ \A attr \in Attributes :
                  keyframes'[a][attr][1] =
                    [frame |-> frame_start,
                     value |-> animation[linked_objects[a]][attr][1]]]_vars

\* C15 witness: with two sub-steps per frame, the second entry of a moving
\* body's record has been taken after two advances, and none in sub-step 1.
C15_Witness ==
  /\ pc = "step"
  /\ steps_per_frame = 2
  /\ current_step = 2
  /\ engine_steps = 2
  /\ \E b \in obj_idxs :
       /\ engine[b].mass > 0
       /\ Len(animation[b].position) = 2
       /\ animation[b].position[1] = 0
       /\ animation[b].position[2] = 2

\* ---------------------------------------------------- the force flags
\* The snapshot of the current sub-step has been taken and the engine has
\* not been advanced yet.
SnapshotTaken ==
  /\ pc = "step"
  /\ \E n \in 0..current_step : n * steps_per_frame = current_step

StoredAcceleration(b) == animation[b].acceleration[Len(animation[b].acceleration)]
StoredFloatingForce(b) == animation[b].floatingForce[Len(animation[b].floatingForce)]

C17_ForceAssetIsLinkedAsset ==
  InLoop =>
    \A i \in obj_idxs \ {FloorBody} :
       /\ i <= Len(foreground_assets)
       /\ linked_objects[foreground_assets[i]] = i

\* ------------------------------------------- contacts that end a force
\* Body b is one of the two instances of a recorded collision event.
EventRecorded(b) ==
  \E i \in 1..Len(collisions) :
     _obj_idx_to_asset(b) \in {collisions[i].instances[1], collisions[i].instances[2]}

\* C18 as stated: every body in collided_with_floor or collided_with_others
\* appears in some recorded collision event.
C18_DisabledOnlyByEvent ==
  \A b \in collided_with_floor \cup collided_with_others : EventRecorded(b)

\* C18 amended: every body in collided_with_floor appears in a contact
\* point with the floor read at or before this sub-step, and every body in
\* collided_with_others in a contact point with another non-floor body,
\* whatever the normal force of the point; an event is recorded for the
\* point only when the force is above the threshold.
C18_DisabledOnlyByContact ==
  /\ \A b \in collided_with_floor : b # FloorBody /\ FloorContactRead(b)
  /\ \A b \in collided_with_others : b # FloorBody /\ ObjectContactRead(b)
  /\ \A b \in obj_idxs :
       EventRecorded(b) =>
         \E i \in 1..Len(read_points) :
            /\ b \in {read_points[i].point.body_a, read_points[i].point.body_b}
            /\ read_points[i].point.normal_force > ForceThreshold

\* C18 witness: thrust is withheld from a body with its engine on after a
\* contact at the threshold with another object, with no event recorded.
C18_Witness ==
  /\ ForcesApplied
  /\ collisions = <<>>
  /\ \E b \in collided_with_others :
       /\ scene_obj(b).engine_on
       /\ ~ThrustApplied(b)
       /\ b \notin collided_with_floor

\* ------------------------------------------------ the frame of an event
\* C19: every collision event of run(frame_start, frame_end) carries a
\* frame number f in the numbering of the keyframes,
\* frame_start <= f < frame_end + 1, for every frame_start >= 0, and the
\* events are listed in non-decreasing frame order.  (f = num / den.)
C19_EventFramesInRange ==
  frame_start >= 0 =>
    /\ \A i \in 1..Len(collisions) :
         /\ frame_start * collisions[i].frame.den <= collisions[i].frame.num
         /\ collisions[i].frame.num < (frame_end + 1) * collisions[i].frame.den
    /\ \A i, j \in 1..Len(collisions) :
         i < j => collisions[i].frame.num * collisions[j].frame.den
                    <= collisions[j].frame.num * collisions[i].frame.den

\* C19 where it holds: counted from the first frame of the run, the frame
\* number of an event lies in [0, frame_end - frame_start + 1).
C19_EventFramesFromZero ==
  /\ \A i \in 1..Len(collisions) :
       /\ 0 <= collisions[i].frame.num
       /\ collisions[i].frame.num < (frame_end - frame_start + 1) * collisions[i].frame.den
  /\ \A i, j \in 1..Len(collisions) :
       i < j => collisions[i].frame.num * collisions[j].frame.den
                  <= collisions[j].frame.num * collisions[i].frame.den

\* ------------------------------------------------ the engine at return
\* C20: when run returns, the engine body of every tracked asset has the
\* asset's position, orientation, velocity and angular velocity.
C20_EngineMatchesAssets ==
  pc = "done" =>
    \A a \in Tracked :
       \A attr \in Motion : EngineState(linked_objects[a])[attr] = assets[a][attr]

\* ------------------------------------------------ the mass in the engine
\* C21: no change of the mass or of the static flag of a tracked asset,
\* a rejected change of mass included, leaves the engine with a negative
\* mass for the asset's body.
C21_EngineMassNeverNegative ==
  [][\A a \in DOMAIN assets :
       HasSetters(a) /\ engine[linked_objects[a]].mass >= 0
         => engine'[linked_objects'[a]].mass >= 0]_vars

\* C21 where it holds: the mass the engine holds is negative only when the
\* asset's own mass is, and a change of mass never makes it so.
C21_NegativeOnlyFromAsset ==
  [][\A a \in DOMAIN assets :
       HasSetters(a) /\ engine[linked_objects[a]].mass >= 0
         => \/ engine'[linked_objects'[a]].mass >= 0
            \/ /\ change' = [name |-> "static", owner |-> a]
               /\ ~assets'[a].static
               /\ assets'[a].mass < 0
               /\ engine'[linked_objects'[a]].mass = assets'[a].mass]_vars

====
